---- MODULE Spec2Model ----
(***************************************************************************)
(* A model of strclear (src/strclear.cpp): the binary and text scrubbers,  *)
(* the binary/text classifier, the path-form expander, the worker pool of  *)
(* process_files with its tally map, and main's target list and report.    *)
(*                                                                         *)
(* Specifications: Spec / LiveSpec (the worker pool), ScrubSpec (scrub     *)
(* passes over one file), DispatchSpec (the worker body with filters and   *)
(* permissions), LoopSpec (the scrub loops step by step), ExpandSpec       *)
(* (main building p.tgt_strs), ReportSpec (main's verbose report).         *)
(*                                                                         *)
(* Bytes are integers (0 = NUL, 1 = a control byte, 97 = 'a', 98 = 'b').   *)
(* Strings and file contents are sequences of bytes, 1-based, so that a    *)
(* C++ offset k is the index k+1 here.                                     *)
(***************************************************************************)
EXTENDS Integers, Sequences, FiniteSets, TLC

\* ---- bounds ------------------------------------------------------------
MaxLen == 4
MaxTgtLen == 2
MaxFiles == 2
MaxThreads == 2
MaxReplLen == 2
MaxPasses == 2

\* ---- program constants -------------------------------------------------
max_check == 4096
fallback_threads == 4

\* ---- alphabets ---------------------------------------------------------
\* the bytes of a file before the first pass (a pass adds the clear byte)
Byte == {1, 97, 98}
TgtByte == {97, 98}

RECURSIVE SeqsUpTo(_, _)
SeqsUpTo(S, n) ==
    IF n = 0 THEN {<<>>}
    ELSE LET shorter == SeqsUpTo(S, n - 1)
         IN  shorter \cup {Append(s, b) : s \in {x \in shorter : Len(x) = n - 1}, b \in S}

NonEmptyStrs(S, n) == SeqsUpTo(S, n) \ {<<>>}

\* ---- std::search / std::string::find -----------------------------------
\* needle t occurs in buf at index i
MatchAt(buf, t, i) ==
    /\ i >= 1
    /\ i + Len(t) - 1 <= Len(buf)
    /\ \A k \in 1..Len(t) : buf[i + k - 1] = t[k]

\* std::search(position, end, t.begin(), t.end()): the first match at or
\* after pos, or Len(buf)+1 (end()) when there is none.
RECURSIVE search(_, _, _)
search(buf, t, pos) ==
    IF pos > Len(buf) THEN Len(buf) + 1
    ELSE IF MatchAt(buf, t, pos) THEN pos
    ELSE search(buf, t, pos + 1)

\* std::string::find(t, pos): the first match at or after pos, 0 for npos.
RECURSIVE find(_, _, _)
find(s, t, pos) ==
    IF pos + Len(t) > Len(s) + 1 THEN 0
    ELSE IF MatchAt(s, t, pos) THEN pos
    ELSE find(s, t, pos + 1)

\* copy_fill that leaves the last byte of the match in place
copy_fill_short(buf, pos, n, c) ==
    [i \in 1..Len(buf) |-> IF i >= pos /\ i < pos + n - 1 THEN c ELSE buf[i]]

\* std::copy(null_chars.begin(), null_chars.end(), position)
copy_fill(buf, pos, n, c) ==
    [i \in 1..Len(buf) |-> IF i >= pos /\ i < pos + n THEN c ELSE buf[i]]

\* std::string::replace(pos, n, r)
replace(s, pos, n, r) ==
    SubSeq(s, 1, pos - 1) \o r \o SubSeq(s, pos + n, Len(s))

\* ---- process_binary ----------------------------------------------------
\* line 154: position += search_chars.size()
binary_advance(q, t) == q + Len(t)

\* the loop body of lines 153-158 run at most once: "if" in place of "while"
binary_scan_once(buf, t, c, position, cnt) ==
    IF search(buf, t, position) = Len(buf) + 1 THEN [buf |-> buf, cnt |-> cnt]
    ELSE [buf |-> copy_fill(buf, search(buf, t, position), Len(t), c), cnt |-> cnt - 1]

\* the while loop of one target, lines 151-159: binary_scan evaluates the
\* loop condition, binary_found is the loop body for the match at q
RECURSIVE binary_scan(_, _, _, _, _)
RECURSIVE binary_found(_, _, _, _, _)
binary_found(buf, t, c, q, cnt) ==
    IF q = Len(buf) + 1 THEN [buf |-> buf, cnt |-> cnt]
    ELSE binary_scan(copy_fill(buf, q, Len(t), c), t, c, binary_advance(q, t), cnt - 1)

binary_scan(buf, t, c, position, cnt) ==
    binary_found(buf, t, c, search(buf, t, position), cnt)

\* the for loop over p.tgt_strs: lines 146-160
RECURSIVE binary_targets(_, _, _, _, _)
RECURSIVE binary_next(_, _, _, _)
binary_next(r, tgts, i, c) == binary_targets(r.buf, tgts, i + 1, c, r.cnt)

binary_targets(buf, tgts, i, c, cnt) ==
    IF i > Len(tgts) THEN [buf |-> buf, cnt |-> cnt]
    ELSE binary_next(binary_scan(buf, tgts[i], c, 1, cnt), tgts, i, c)

\* binary_result without the early return of lines 161-162: the buffer is
\* written back whatever the count
binary_result_always(content, writable, r) ==
    IF ~writable
    THEN [ret |-> r.cnt, out |-> content, wrote |-> FALSE, err |-> "write", exits |-> FALSE]
    ELSE [ret |-> r.cnt, out |-> r.buf, wrote |-> TRUE, err |-> "none", exits |-> FALSE]

\* process_binary on a file with the given content and permissions.
\* ret: the return value; out: the content on disk afterwards;
\* wrote: the file was opened for writing; err: the failure met;
\* exits: the process was terminated.
binary_result(content, writable, r) ==
    IF r.cnt = 0
    THEN [ret |-> 0, out |-> content, wrote |-> FALSE, err |-> "none", exits |-> FALSE]
    ELSE IF ~writable
    THEN [ret |-> r.cnt, out |-> content, wrote |-> FALSE, err |-> "write", exits |-> FALSE]
    ELSE [ret |-> r.cnt, out |-> r.buf, wrote |-> TRUE, err |-> "none", exits |-> FALSE]

process_binary(content, readable, writable, p) ==
    IF ~readable
    THEN [ret |-> 0, out |-> content, wrote |-> FALSE, err |-> "open", exits |-> FALSE]
    ELSE binary_result(content, writable,
                       binary_targets(content, p.tgt_strs, 1, p.clear_char, 0))

\* ---- process_text ------------------------------------------------------
\* the cursor left on the match: the replacement is scanned again
text_advance_none(q, repl) == q

\* line 209: pos += p.replace_str.size()
text_advance(q, repl) == q + Len(repl)

\* the loop body of lines 208-210 run at most once: "if" in place of "while"
text_scan_once(s, t, repl, pos, cnt, rincr) ==
    IF find(s, t, pos) = 0 THEN [buf |-> s, cnt |-> cnt]
    ELSE [buf |-> replace(s, find(s, t, pos), Len(t), repl), cnt |-> cnt + rincr]

\* the while loop of one target, lines 206-211: text_scan evaluates the
\* loop condition, text_found is the loop body for the match at q
RECURSIVE text_scan(_, _, _, _, _, _)
RECURSIVE text_found(_, _, _, _, _, _)
text_found(s, t, repl, q, cnt, rincr) ==
    IF q = 0 THEN [buf |-> s, cnt |-> cnt]
    ELSE text_scan(replace(s, q, Len(t), repl), t, repl, text_advance(q, repl),
                   cnt + rincr, rincr)

text_scan(s, t, repl, pos, cnt, rincr) ==
    text_found(s, t, repl, find(s, t, pos), cnt, rincr)

\* the for loop over p.tgt_strs: lines 205-212
RECURSIVE text_targets(_, _, _, _, _, _)
RECURSIVE text_next(_, _, _, _, _)
text_next(r, tgts, i, repl, rincr) == text_targets(r.buf, tgts, i + 1, repl, r.cnt, rincr)

text_targets(s, tgts, i, repl, cnt, rincr) ==
    IF i > Len(tgts) THEN [buf |-> s, cnt |-> cnt]
    ELSE text_next(text_scan(s, tgts[i], repl, 1, cnt, rincr), tgts, i, repl, rincr)

text_result(content, writable, r) ==
    IF r.cnt = 0
    THEN [ret |-> 0, out |-> content, wrote |-> FALSE, err |-> "none", exits |-> FALSE]
    ELSE IF ~writable
    THEN [ret |-> r.cnt, out |-> content, wrote |-> FALSE, err |-> "write", exits |-> TRUE]
    ELSE [ret |-> r.cnt, out |-> r.buf, wrote |-> TRUE, err |-> "none", exits |-> FALSE]

process_text(content, readable, writable, p) ==
    IF ~readable
    THEN [ret |-> 0, out |-> content, wrote |-> FALSE, err |-> "open", exits |-> FALSE]
    ELSE IF Len(content) = 0
    THEN [ret |-> 0, out |-> content, wrote |-> FALSE, err |-> "none", exits |-> FALSE]
    ELSE text_result(content, writable,
                     text_targets(content, p.tgt_strs, 1, p.replace_str, 0,
                                  IF Len(p.replace_str) # 0 THEN 1 ELSE 0 - 1))

\* ---- is_binary ---------------------------------------------------------
is_text_byte(c) ==
    \/ (c >= 32 /\ c <= 126)
    \/ c \in {10, 13, 9, 12}
    \/ (c >= 194 /\ c <= 244)

Min(a, b) == IF a < b THEN a ELSE b

is_binary(content) ==
    LET n_avail == Min(Len(content), max_check)
        nul == {i \in 1..n_avail : content[i] = 0}
    IN  IF nul # {} THEN TRUE
        ELSE LET n_read == n_avail
                 n_nontext == Cardinality({i \in 1..n_read : ~is_text_byte(content[i])})
             IN  IF n_read = 0 THEN FALSE
                 ELSE n_nontext * 10 > n_read

\* ---- expand_path_forms -------------------------------------------------
\* std::string operator> on strings of equal length
RECURSIVE str_greater(_, _, _)
str_greater(a, b, i) ==
    IF i > Len(a) \/ i > Len(b) THEN Len(a) > Len(b)
    ELSE IF a[i] # b[i] THEN a[i] > b[i]
    ELSE str_greater(a, b, i + 1)

\* the comparator without the size test of lines 119-120
forms_before_lex(a, b) == str_greater(a, b, 1)

\* the comparator of lines 118-122: a is ordered before b
forms_before(a, b) ==
    IF Len(a) # Len(b) THEN Len(a) > Len(b) ELSE str_greater(a, b, 1)

\* insert x into the sorted sequence s
RECURSIVE sort_insert(_, _)
sort_insert(s, x) ==
    IF s = <<>> THEN <<x>>
    ELSE IF forms_before(x, Head(s)) THEN <<x>> \o s
    ELSE <<Head(s)>> \o sort_insert(Tail(s), x)

\* std::sort(forms.begin(), forms.end(), comparator)
RECURSIVE sort_forms(_)
sort_forms(forms) ==
    IF forms = <<>> THEN <<>>
    ELSE sort_insert(sort_forms(Tail(forms)), Head(forms))

\* expand_path_forms whose catch block drops what was collected
expand_path_forms_drop(input, fsq) ==
    IF Len(input) = 0 \/ fsq.throws THEN <<>>
    ELSE IF ~fsq.exists THEN <<input>>
    ELSE sort_forms(<<input>> \o (IF fsq.abs # <<>> /\ fsq.abs # input
                                  THEN <<fsq.abs>> ELSE <<>>))

\* fsq is what the filesystem answers for the input path: throws (a query
\* raised an exception), exists (the path exists and is a regular file, a
\* symlink or a directory), abs, canon, ec (canonical() failed), norm.
expand_path_forms(input, fsq) ==
    IF Len(input) = 0 THEN <<>>
    ELSE LET forms0 == <<input>>
             canon == IF fsq.ec THEN <<>> ELSE fsq.canon
             forms1 == IF fsq.abs # <<>> /\ fsq.abs # input
                       THEN Append(forms0, fsq.abs) ELSE forms0
             forms2 == IF ~fsq.ec /\ canon # <<>> /\ canon # input /\ canon # fsq.abs
                       THEN Append(forms1, canon) ELSE forms1
             forms3 == IF fsq.norm # <<>> /\ fsq.norm # input /\ fsq.norm # fsq.abs
                          /\ fsq.norm # canon
                       THEN Append(forms2, fsq.norm) ELSE forms2
         IN  IF fsq.throws \/ ~fsq.exists THEN sort_forms(forms0)
             ELSE sort_forms(forms3)

\* what the filesystem can answer, within the bounds
FsAnswers ==
    [throws : BOOLEAN, exists : BOOLEAN, ec : BOOLEAN,
     abs : SeqsUpTo(TgtByte, MaxTgtLen),
     canon : SeqsUpTo(TgtByte, MaxTgtLen),
     norm : SeqsUpTo(TgtByte, MaxTgtLen)]

\* p.tgt_strs as main builds it (lines 448-458) from a non-empty target_str
main_tgt_strs(target_str, path_mode, fsq) ==
    IF path_mode THEN expand_path_forms(target_str, fsq) ELSE <<target_str>>

\* the answers for a path without symlinks that is already normalized:
\* canonical() equals absolute(), lexically_normal() is the input
PlainFsAnswers(t) ==
    {[throws |-> FALSE, exists |-> e, ec |-> FALSE, abs |-> a, canon |-> a, norm |-> t] :
        e \in BOOLEAN, a \in SeqsUpTo(TgtByte, MaxTgtLen)}

TargetSets ==
    UNION {{main_tgt_strs(t, pm, fsq) : pm \in BOOLEAN, fsq \in PlainFsAnswers(t)} :
              t \in NonEmptyStrs(TgtByte, MaxTgtLen)}

\* ---- the per-file body of the worker lambda (lines 295-309) -------------
\* kind: which treatment the file got.
\* lines 304-308: result starts at 0; each of the two ifs that fires
\* overwrites it (and works on what the one before left on disk)
scrub_second(r1, do_bin, do_txt, readable, writable, p) ==
    IF do_txt THEN process_text(r1.out, readable, writable, p) ELSE r1

scrub_kind(r, do_bin, do_txt) ==
    [ret |-> r.ret, out |-> r.out, wrote |-> r.wrote, err |-> r.err, exits |-> r.exits,
     kind |-> IF do_bin /\ do_txt THEN "both"
              ELSE IF do_bin THEN "binary"
              ELSE IF do_txt THEN "text" ELSE "skip"]

scrub_dispatch(content, readable, writable, p, do_bin, do_txt) ==
    scrub_kind(
        scrub_second(
            IF do_bin THEN process_binary(content, readable, writable, p)
            ELSE [ret |-> 0, out |-> content, wrote |-> FALSE, err |-> "none",
                  exits |-> FALSE],
            do_bin, do_txt, readable, writable, p),
        do_bin, do_txt)

\* scrub_classified with line 307 reading "if (!p.binary_only)"
scrub_classified_any(content, readable, writable, p, binary_mode) ==
    scrub_dispatch(content, readable, writable, p,
                   binary_mode /\ ~p.text_only, ~p.binary_only)

scrub_classified(content, readable, writable, p, binary_mode) ==
    scrub_dispatch(content, readable, writable, p,
                   binary_mode /\ ~p.text_only, ~binary_mode /\ ~p.binary_only)

scrub_file(content, readable, writable, p) ==
    IF ~readable
    THEN [ret |-> 0, out |-> content, wrote |-> FALSE, err |-> "open",
          exits |-> FALSE, kind |-> "openfail"]
    ELSE scrub_classified(content, readable, writable, p, is_binary(content))

\* ---- state -------------------------------------------------------------
VARIABLES
    p,            \* process_opts
    files,        \* std::set<std::string> files (paths are 1..n, in set order)
    disk,         \* content of every file
    disk0,        \* content of every file when the run started
    fperm,        \* per file: readable, writable
    num_threads,
    work_queue,   \* std::queue<std::string>
    done,         \* std::atomic<bool> done
    queue_mutex,  \* 0 when free, else the holder (a worker id, or -1 for main)
    wpc,          \* program counter of every worker ("waiting": blocked in cv.wait)
    fname,        \* the worker's local fname (0: not in scope)
    result,       \* the worker's local result (0: not in scope)
    op_tally,     \* std::map<std::string, std::atomic<int>>
    inserting,    \* workers inside op_tally[fname] = ...
    raced,        \* workers whose map access overlapped another worker's
    mpc,          \* program counter of main / process_files
    nlaunched,    \* threads.size()
    njoined,      \* index of the join loop
    proc,         \* "running", "exited" (exit(-1)), "crashed", "ended"
    taken,        \* per file: how many times it was dequeued
    processed,    \* per file: how many times the worker body ran on it
    ferr,         \* per file: the failure met while processing it
    treat,        \* per file: the treatment it got
    passes,       \* scrub passes made over the file
    last,         \* what the last scrub pass did
    target_str,   \* main's target_str (<<>>: main's frame is not in scope)
    fsq,          \* what the filesystem answers about target_str
    out,          \* the lines main has written to std::cout
    scan          \* the locals of a scrubber while it is inside its loops

poolVars == <<num_threads, work_queue, done, queue_mutex, wpc, fname, result,
              op_tally, inserting, raced, mpc, nlaunched, njoined, proc,
              taken, processed, ferr, treat>>
vars == <<p, files, disk, disk0, fperm, poolVars, passes, last, target_str, fsq, out, scan>>

\* no filesystem query was made
NoFs == [throws |-> FALSE, exists |-> FALSE, ec |-> FALSE, abs |-> <<>>, canon |-> <<>>,
         norm |-> <<>>]

\* no scrubber is inside its loops
NoScan == [fn |-> "none"]

\* main's frame is not part of the run: nothing parsed, nothing printed
NoMain ==
    /\ target_str = <<>>
    /\ fsq = NoFs
    /\ out = <<>>

NoLast == [ret |-> 0, before |-> <<>>, kind |-> "none", wrote |-> FALSE, err |-> "none"]

Options(binflags) ==
    {[binary_only |-> bo, text_only |-> to, clear_char |-> c, tgt_strs |-> ts,
      replace_str |-> r] :
        bo \in binflags, to \in binflags, c \in {0, 97}, ts \in TargetSets,
        r \in SeqsUpTo(TgtByte, MaxReplLen)}

\* ---- the scrubbers on one file, pass after pass --------------------------
PoolIdle ==
    /\ num_threads = 1
    /\ work_queue = <<>>
    /\ done = FALSE
    /\ queue_mutex = 0
    /\ wpc = [w \in {} |-> "idle"]
    /\ fname = [w \in {} |-> 0]
    /\ result = [w \in {} |-> 0]
    /\ op_tally = <<>>
    /\ inserting = {}
    /\ raced = {}
    /\ mpc = "start"
    /\ nlaunched = 0
    /\ njoined = 0
    /\ proc = "running"
    /\ taken = [f \in {1} |-> 0]
    /\ processed = [f \in {1} |-> 0]
    /\ ferr = [f \in {1} |-> "none"]
    /\ treat = [f \in {1} |-> "none"]

ScrubInit ==
    /\ p \in Options({FALSE})
    /\ files = {1}
    /\ disk \in [{1} -> SeqsUpTo(Byte, MaxLen)]
    \* the option the scrubber of this file never reads keeps its default
    /\ is_binary(disk[1]) => p.replace_str = <<>>
    /\ ~is_binary(disk[1]) => p.clear_char = 0
    /\ disk0 = disk
    /\ fperm = [f \in {1} |-> [r |-> TRUE, w |-> TRUE]]
    /\ PoolIdle
    /\ NoMain
    /\ scan = NoScan
    /\ passes = 0
    /\ last = NoLast

\* one run of the worker body over the file has produced r
ApplyPass(r) ==
    /\ disk' = [disk EXCEPT ![1] = r.out]
    /\ last' = [ret |-> r.ret, before |-> disk[1], kind |-> r.kind,
                wrote |-> r.wrote, err |-> r.err]
    /\ passes' = passes + 1
    /\ UNCHANGED <<p, files, disk0, fperm, poolVars, target_str, fsq, out, scan>>

\* the file is classified binary: process_binary runs over it
BinaryPass ==
    /\ passes < MaxPasses
    /\ is_binary(disk[1])
    /\ \E r \in {scrub_file(disk[1], fperm[1].r, fperm[1].w, p)} :
           r.kind = "binary" /\ ApplyPass(r)

\* the file is classified text: process_text runs over it
TextPass ==
    /\ passes < MaxPasses
    /\ ~is_binary(disk[1])
    /\ \E r \in {scrub_file(disk[1], fperm[1].r, fperm[1].w, p)} :
           r.kind = "text" /\ ApplyPass(r)

ScrubNext == BinaryPass \/ TextPass
ScrubSpec == ScrubInit /\ [][ScrubNext]_vars

\* ---- the worker body on one file, with filters and permissions ----------
\* main rejects -b together with -t (lines 395-399)
Filters ==
    {[binary_only |-> FALSE, text_only |-> FALSE],
     [binary_only |-> TRUE, text_only |-> FALSE],
     [binary_only |-> FALSE, text_only |-> TRUE]}

DispatchOptions ==
    {[binary_only |-> f.binary_only, text_only |-> f.text_only, clear_char |-> c,
      tgt_strs |-> ts, replace_str |-> r] :
        f \in Filters, c \in {0, 98}, ts \in {<<<<97>>>>, <<<<97, 98>>, <<97>>>>},
        r \in {<<>>, <<98>>}}

\* a file is readable and writable, read-only, or cannot be opened
Perms == {[r |-> TRUE, w |-> TRUE], [r |-> TRUE, w |-> FALSE], [r |-> FALSE, w |-> FALSE]}

DispatchInit ==
    /\ p \in DispatchOptions
    /\ files = {1}
    /\ disk \in [{1} -> SeqsUpTo(Byte, MaxLen)]
    /\ disk0 = disk
    /\ fperm \in [{1} -> Perms]
    /\ PoolIdle
    /\ NoMain
    /\ scan = NoScan
    /\ passes = 0
    /\ last = NoLast

\* lines 295-309: the worker body runs once over the file, whatever the
\* treatment the file gets
ScrubOnce ==
    /\ passes < MaxPasses
    /\ \E r \in {scrub_file(disk[1], fperm[1].r, fperm[1].w, p)} : ApplyPass(r)

DispatchNext == ScrubOnce
DispatchSpec == DispatchInit /\ [][DispatchNext]_vars

\* ---- main: from the parsed command line to p.tgt_strs --------------------
\* the answers the code can get: nothing is asked after a query has thrown
\* or answered that the path does not exist, and canonical() returns the
\* empty path when it sets ec
FsQueried ==
    {q \in FsAnswers :
        /\ q.throws => (~q.exists /\ ~q.ec)
        /\ ~q.exists => (~q.ec /\ q.abs = <<>> /\ q.canon = <<>> /\ q.norm = <<>>)
        /\ q.ec => q.canon = <<>>}

ExpandOptions ==
    {[binary_only |-> FALSE, text_only |-> FALSE, clear_char |-> 0, replace_str |-> <<>>,
      verbose |-> FALSE, path_mode |-> pm, tgt_strs |-> <<>>] : pm \in BOOLEAN}

\* the state of main at line 447: options parsed, target_str read
ExpandInit ==
    /\ p \in ExpandOptions
    /\ target_str \in SeqsUpTo(TgtByte, MaxTgtLen)
    /\ fsq \in IF p.path_mode /\ target_str # <<>> THEN FsQueried ELSE {NoFs}
    /\ out = <<>>
    /\ files = {1}
    /\ disk = [f \in {1} |-> <<97>>]
    /\ disk0 = disk
    /\ fperm = [f \in {1} |-> [r |-> TRUE, w |-> TRUE]]
    /\ num_threads = 1
    /\ work_queue = <<>>
    /\ done = FALSE
    /\ queue_mutex = 0
    /\ wpc = [w \in {} |-> "idle"]
    /\ fname = [w \in {} |-> 0]
    /\ result = [w \in {} |-> 0]
    /\ op_tally = <<>>
    /\ inserting = {}
    /\ raced = {}
    /\ mpc = "parsed"
    /\ nlaunched = 0
    /\ njoined = 0
    /\ proc = "running"
    /\ taken = [f \in {1} |-> 0]
    /\ processed = [f \in {1} |-> 0]
    /\ ferr = [f \in {1} |-> "none"]
    /\ treat = [f \in {1} |-> "none"]
    /\ scan = NoScan
    /\ passes = 0
    /\ last = NoLast

\* lines 448-451: an empty target string ends main with -1
RejectEmptyTarget ==
    /\ proc = "running" /\ mpc = "parsed"
    /\ Len(target_str) = 0
    /\ proc' = "ended"
    /\ UNCHANGED <<p, files, disk, disk0, fperm, num_threads, work_queue, done,
                   queue_mutex, wpc, fname, result, op_tally, inserting, raced, mpc,
                   nlaunched, njoined, taken, processed, ferr, treat, passes, last,
                   target_str, fsq, out, scan>>

\* lines 453-458: p.tgt_strs is built; main goes on to process_files
BuildTargets ==
    /\ proc = "running" /\ mpc = "parsed"
    /\ Len(target_str) # 0
    /\ p' = [p EXCEPT !.tgt_strs = main_tgt_strs(target_str, p.path_mode, fsq)]
    /\ mpc' = "start"
    /\ UNCHANGED <<files, disk, disk0, fperm, num_threads, work_queue, done,
                   queue_mutex, wpc, fname, result, op_tally, inserting, raced,
                   nlaunched, njoined, proc, taken, processed, ferr, treat, passes, last,
                   target_str, fsq, out, scan>>

ExpandNext == RejectEmptyTarget \/ BuildTargets
ExpandSpec == ExpandInit /\ [][ExpandNext]_vars

\* ---- the loops of the scrubbers, one iteration at a time -------------------
\* scan holds the locals of the scrubber: fn (which scrubber), contents
\* (bin_contents / nfile_contents), t_it (index into p.tgt_strs,
\* Len(p.tgt_strs)+1 for end()), pos (position / pos), change_cnt, and pc
\* ("loop" inside the for loop, "done" after it)
LoopTargets == {ts \in TargetSets : Len(ts) = 1 \/ ts[Len(ts)] = <<97>>}

LoopOptions ==
    {[binary_only |-> FALSE, text_only |-> FALSE, clear_char |-> c, tgt_strs |-> ts,
      replace_str |-> r] :
        c \in {0, 97}, ts \in LoopTargets, r \in SeqsUpTo(TgtByte, MaxReplLen)}

\* the file has been read: process_binary at line 146 on a file classified
\* binary, process_text at line 205 on a non-empty file classified text
LoopInit ==
    /\ p \in LoopOptions
    /\ files = {1}
    /\ disk \in [{1} -> SeqsUpTo(Byte, MaxLen)]
    /\ is_binary(disk[1]) => p.replace_str = <<>>
    /\ ~is_binary(disk[1]) => (p.clear_char = 0 /\ disk[1] # <<>>)
    /\ disk0 = disk
    /\ fperm = [f \in {1} |-> [r |-> TRUE, w |-> TRUE]]
    /\ PoolIdle
    /\ NoMain
    /\ scan = [fn |-> IF is_binary(disk[1]) THEN "process_binary" ELSE "process_text",
               contents |-> disk[1], t_it |-> 1, pos |-> 1, change_cnt |-> 0,
               pc |-> "loop"]
    /\ passes = 0
    /\ last = NoLast

InLoop(fn) == scan.fn = fn /\ scan.pc = "loop" /\ scan.t_it <= Len(p.tgt_strs)

LoopFrame == UNCHANGED <<p, files, disk, disk0, fperm, poolVars, passes, last,
                         target_str, fsq, out>>

\* lines 152-158: std::search finds a match, it is overwritten and the
\* cursor moves past it
BinaryMatch ==
    /\ InLoop("process_binary")
    /\ \E q \in {search(scan.contents, p.tgt_strs[scan.t_it], scan.pos)} :
          /\ q # Len(scan.contents) + 1
          /\ scan' = [scan EXCEPT
                         !.contents = copy_fill(scan.contents, q,
                                                Len(p.tgt_strs[scan.t_it]), p.clear_char),
                         !.pos = binary_advance(q, p.tgt_strs[scan.t_it]),
                         !.change_cnt = scan.change_cnt - 1]
    /\ LoopFrame

\* line 152 finds nothing: the while loop ends, ++t_it, position = begin()
BinaryNextTarget ==
    /\ InLoop("process_binary")
    /\ search(scan.contents, p.tgt_strs[scan.t_it], scan.pos) = Len(scan.contents) + 1
    /\ scan' = [scan EXCEPT !.t_it = scan.t_it + 1, !.pos = 1]
    /\ LoopFrame

\* lines 207-210: find gives a match, the replacement is spliced in and pos
\* moves past it
TextMatch ==
    /\ InLoop("process_text")
    /\ \E q \in {find(scan.contents, p.tgt_strs[scan.t_it], scan.pos)} :
          /\ q # 0
          /\ scan' = [scan EXCEPT
                         !.contents = replace(scan.contents, q,
                                              Len(p.tgt_strs[scan.t_it]), p.replace_str),
                         !.pos = text_advance(q, p.replace_str),
                         !.change_cnt = scan.change_cnt
                                          + (IF Len(p.replace_str) # 0 THEN 1 ELSE 0 - 1)]
    /\ LoopFrame

\* line 207 gives npos: the while loop ends, ++t_it, pos = 0
TextNextTarget ==
    /\ InLoop("process_text")
    /\ find(scan.contents, p.tgt_strs[scan.t_it], scan.pos) = 0
    /\ scan' = [scan EXCEPT !.t_it = scan.t_it + 1, !.pos = 1]
    /\ LoopFrame

\* t_it == p.tgt_strs.end(): the for loop is left (lines 160 and 212)
LoopsEnd ==
    /\ scan.fn \in {"process_binary", "process_text"}
    /\ scan.pc = "loop"
    /\ scan.t_it > Len(p.tgt_strs)
    /\ scan' = [scan EXCEPT !.pc = "done"]
    /\ LoopFrame

LoopNext == BinaryMatch \/ BinaryNextTarget \/ TextMatch \/ TextNextTarget \/ LoopsEnd

\* a scrubber runs on one thread and nothing makes it wait: a step of
\* its loop that is possible is taken
LoopSpec == LoopInit /\ [][LoopNext]_vars /\ WF_vars(LoopNext)

\* ---- process_files: the worker pool --------------------------------------
fileVars == <<p, files, disk0, fperm, num_threads, target_str, fsq>>
scrubVars == <<passes, last, scan>>

\* std::thread::hardware_concurrency() with its fallback (lines 263-265)
pool_size(hw) == IF hw = 0 THEN fallback_threads ELSE hw

\* the files in std::set order, as the loop of lines 272-273 pushes them
RECURSIVE enqueue_all(_, _)
enqueue_all(fs, q) ==
    IF fs = {} THEN q
    ELSE LET f == CHOOSE x \in fs : \A y \in fs : x <= y
         IN  enqueue_all(fs \ {f}, Append(q, f))

\* work_queue.pop() dropped: the front stays in the queue
pop_none(q) == q

\* work_queue.pop()
pop(q) == Tail(q)

\* the predicate of cv.wait (line 281)
wait_pred == work_queue # <<>> \/ done

\* t.join() returns at once, whatever the thread is doing
joinable_always(w) == TRUE

\* t.join() returns once the thread has left the worker lambda
joinable(w) == wpc[w] = "exited"

\* op_tally[f] = v
tally_store(tally, f, v) ==
    [x \in DOMAIN tally \cup {f} |-> IF x = f THEN v ELSE tally[x]]

\* the files of a run: a text file and a binary file holding the target,
\* each writable or read-only, and a file that cannot be opened
FileConfigs ==
    {[content |-> c, r |-> TRUE, w |-> w] : c \in {<<97>>, <<0, 97>>}, w \in BOOLEAN}
    \cup {[content |-> <<97>>, r |-> FALSE, w |-> FALSE]}

\* ---- main: the verbose report (lines 463-512) ----------------------------
\* a line of std::cout: what it says, the path and count of a processed-path
\* line, the string a header line shows
Line(kind, path, n, str) == [kind |-> kind, path |-> path, n |-> n, str |-> str]

\* lines 467-473
did_op(tally) == \E f \in DOMAIN tally : tally[f] # 0

\* lines 486-491: the targets other than the original
RECURSIVE expanded_lines(_, _, _)
expanded_lines(tgts, orig, i) ==
    IF i > Len(tgts) THEN <<>>
    ELSE (IF tgts[i] = orig THEN <<>> ELSE <<Line("expanded", 0, 0, tgts[i])>>)
         \o expanded_lines(tgts, orig, i + 1)

\* lines 501-508: one line per entry, in key order
RECURSIVE tally_lines(_, _)
tally_lines(tally, keys) ==
    IF keys = {} THEN <<>>
    ELSE LET f == CHOOSE x \in keys : \A y \in keys : x <= y
         IN  <<IF tally[f] < 0 THEN Line("cleared", f, (0 - 1) * tally[f], <<>>)
               ELSE Line("replaced", f, tally[f], <<>>)>>
             \o tally_lines(tally, keys \ {f})

\* lines 482-498
summary_lines(opts, orig) ==
    <<Line("summary", 0, 0, <<>>), Line("target", 0, 0, orig)>>
    \o (IF opts.path_mode
        THEN <<Line("expanded_header", 0, 0, <<>>)>> \o expanded_lines(opts.tgt_strs, orig, 1)
        ELSE <<>>)
    \o (IF opts.clear_char # 0 THEN <<Line("clear_char", 0, 0, <<opts.clear_char>>)>> ELSE <<>>)
    \o (IF Len(opts.replace_str) # 0 THEN <<Line("replacement", 0, 0, opts.replace_str)>>
        ELSE <<>>)
    \o <<Line("processed_paths", 0, 0, <<>>)>>

report(tally, opts, orig) ==
    IF ~opts.verbose THEN <<>>
    ELSE IF did_op(tally)
    THEN summary_lines(opts, orig) \o tally_lines(tally, DOMAIN tally)
    ELSE <<Line("no_matches", 0, 0, <<>>)>>

\* the options of a run: no filter, default clear byte, one target, no
\* replacement string, verbose, no path expansion
PoolOptions ==
    {[binary_only |-> FALSE, text_only |-> FALSE, clear_char |-> 0,
      tgt_strs |-> <<<<97>>>>, replace_str |-> <<>>, verbose |-> TRUE,
      path_mode |-> FALSE]}

Init ==
    /\ p \in PoolOptions
    /\ \E n \in 0..MaxFiles :
          /\ files = 1..n
          /\ \E cfg \in [1..n -> FileConfigs] :
                /\ disk = [f \in 1..n |-> cfg[f].content]
                /\ fperm = [f \in 1..n |-> [r |-> cfg[f].r, w |-> cfg[f].w]]
          /\ taken = [f \in 1..n |-> 0]
          /\ processed = [f \in 1..n |-> 0]
          /\ ferr = [f \in 1..n |-> "none"]
          /\ treat = [f \in 1..n |-> "none"]
    /\ disk0 = disk
    /\ \E hw \in 1..MaxThreads : num_threads = pool_size(hw)
    /\ work_queue = <<>>
    /\ done = FALSE
    /\ queue_mutex = 0
    /\ wpc = [w \in 1..num_threads |-> "idle"]
    /\ fname = [w \in 1..num_threads |-> 0]
    /\ result = [w \in 1..num_threads |-> 0]
    /\ op_tally = <<>>
    /\ inserting = {}
    /\ raced = {}
    /\ mpc = "start"
    /\ nlaunched = 0
    /\ njoined = 0
    /\ proc = "running"
    /\ target_str = <<97>>
    /\ fsq = NoFs
    /\ out = <<>>
    /\ scan = NoScan
    /\ passes = 0
    /\ last = NoLast

Running == proc = "running"

\* line 259: nothing to do
EarlyReturn ==
    /\ Running /\ mpc = "start"
    /\ (files = {} \/ Len(p.tgt_strs) = 0)
    /\ mpc' = "returned"
    /\ UNCHANGED <<fileVars, out, disk, scrubVars, work_queue, done, queue_mutex, wpc,
                   fname, result, op_tally, inserting, raced, nlaunched, njoined, proc,
                   taken, processed, ferr, treat>>

\* lines 271-273
Enqueue ==
    /\ Running /\ mpc = "start"
    /\ ~(files = {} \/ Len(p.tgt_strs) = 0)
    /\ work_queue' = enqueue_all(files, work_queue)
    /\ mpc' = "launch"
    /\ UNCHANGED <<fileVars, out, disk, scrubVars, done, queue_mutex, wpc,
                   fname, result, op_tally, inserting, raced, nlaunched, njoined, proc,
                   taken, processed, ferr, treat>>

\* lines 315-317: threads.emplace_back(worker)
Launch ==
    /\ Running /\ mpc = "launch"
    /\ nlaunched < num_threads
    /\ nlaunched' = nlaunched + 1
    /\ wpc' = [wpc EXCEPT ![nlaunched + 1] = "lock"]
    /\ UNCHANGED <<fileVars, out, disk, scrubVars, work_queue, done, queue_mutex, mpc,
                   fname, result, op_tally, inserting, raced, njoined, proc,
                   taken, processed, ferr, treat>>

\* line 321: std::lock_guard<std::mutex> lock(queue_mutex)
LockForDone ==
    /\ Running /\ mpc = "launch"
    /\ nlaunched = num_threads
    /\ queue_mutex = 0
    /\ queue_mutex' = 0 - 1
    /\ mpc' = "set_done"
    /\ UNCHANGED <<fileVars, out, disk, scrubVars, work_queue, done, wpc,
                   fname, result, op_tally, inserting, raced, nlaunched, njoined, proc,
                   taken, processed, ferr, treat>>

\* lines 322-323: done = true, then the lock_guard releases the mutex
SetDone ==
    /\ Running /\ mpc = "set_done"
    /\ done' = TRUE
    /\ queue_mutex' = 0
    /\ mpc' = "notify"
    /\ UNCHANGED <<fileVars, out, disk, scrubVars, work_queue, wpc,
                   fname, result, op_tally, inserting, raced, nlaunched, njoined, proc,
                   taken, processed, ferr, treat>>

\* line 324: cv.notify_all(): every blocked worker leaves the wait and goes
\* for the mutex again
NotifyAll ==
    /\ Running /\ mpc = "notify"
    /\ wpc' = [w \in DOMAIN wpc |-> IF wpc[w] = "waiting" THEN "lock" ELSE wpc[w]]
    /\ mpc' = "join"
    /\ UNCHANGED <<fileVars, out, disk, scrubVars, work_queue, done, queue_mutex,
                   fname, result, op_tally, inserting, raced, nlaunched, njoined, proc,
                   taken, processed, ferr, treat>>

\* lines 327-328: t.join() for the next thread
Join ==
    /\ Running /\ mpc = "join"
    /\ njoined < nlaunched
    /\ joinable(njoined + 1)
    /\ njoined' = njoined + 1
    /\ UNCHANGED <<fileVars, out, disk, scrubVars, work_queue, done, queue_mutex, wpc,
                   fname, result, op_tally, inserting, raced, nlaunched, mpc, proc,
                   taken, processed, ferr, treat>>

\* line 329: process_files returns to main
Return ==
    /\ Running /\ mpc = "join"
    /\ njoined = nlaunched
    /\ mpc' = "returned"
    /\ UNCHANGED <<fileVars, out, disk, scrubVars, work_queue, done, queue_mutex, wpc,
                   fname, result, op_tally, inserting, raced, nlaunched, njoined, proc,
                   taken, processed, ferr, treat>>

\* lines 463-512: main reads op_tally and prints the summary
Report ==
    /\ Running /\ mpc = "returned"
    /\ out' = out \o report(op_tally, p, target_str)
    /\ mpc' = "report"
    /\ UNCHANGED <<fileVars, disk, scrubVars, work_queue, done, queue_mutex, wpc,
                   fname, result, op_tally, inserting, raced, nlaunched, njoined, proc,
                   taken, processed, ferr, treat>>

\* line 280: std::unique_lock<std::mutex> lock(queue_mutex); also the
\* re-acquisition inside cv.wait after a wake-up
WorkerLock(w) ==
    /\ Running /\ wpc[w] = "lock"
    /\ queue_mutex = 0
    /\ queue_mutex' = w
    /\ wpc' = [wpc EXCEPT ![w] = "check"]
    /\ UNCHANGED <<fileVars, out, disk, scrubVars, work_queue, done,
                   fname, result, op_tally, inserting, raced, mpc, nlaunched, njoined, proc,
                   taken, processed, ferr, treat>>

\* line 281: the predicate is false, cv.wait releases the mutex and blocks
WorkerWait(w) ==
    /\ Running /\ wpc[w] = "check"
    /\ ~wait_pred
    /\ queue_mutex' = 0
    /\ wpc' = [wpc EXCEPT ![w] = "waiting"]
    /\ UNCHANGED <<fileVars, out, disk, scrubVars, work_queue, done,
                   fname, result, op_tally, inserting, raced, mpc, nlaunched, njoined, proc,
                   taken, processed, ferr, treat>>

\* a spurious wake-up: a blocked worker leaves the wait without a notify
\* and goes for the mutex again
SpuriousWake(w) ==
    /\ Running /\ wpc[w] = "waiting"
    /\ wpc' = [wpc EXCEPT ![w] = "lock"]
    /\ UNCHANGED <<fileVars, out, disk, scrubVars, work_queue, done, queue_mutex,
                   fname, result, op_tally, inserting, raced, mpc, nlaunched, njoined, proc,
                   taken, processed, ferr, treat>>

\* lines 283-285: take the front of the queue, leave the critical section
WorkerTake(w) ==
    /\ Running /\ wpc[w] = "check"
    /\ wait_pred
    /\ work_queue # <<>>
    /\ fname' = [fname EXCEPT ![w] = Head(work_queue)]
    /\ work_queue' = pop(work_queue)
    /\ taken' = [taken EXCEPT ![Head(work_queue)] = @ + 1]
    /\ queue_mutex' = 0
    /\ wpc' = [wpc EXCEPT ![w] = "open"]
    /\ UNCHANGED <<fileVars, out, disk, scrubVars, done,
                   result, op_tally, inserting, raced, mpc, nlaunched, njoined, proc,
                   processed, ferr, treat>>

\* lines 286-288: no work and done, the worker returns
WorkerExit(w) ==
    /\ Running /\ wpc[w] = "check"
    /\ wait_pred
    /\ work_queue = <<>>
    /\ done
    /\ queue_mutex' = 0
    /\ wpc' = [wpc EXCEPT ![w] = "exited"]
    /\ UNCHANGED <<fileVars, out, disk, scrubVars, work_queue, done,
                   fname, result, op_tally, inserting, raced, mpc, nlaunched, njoined, proc,
                   taken, processed, ferr, treat>>

\* lines 295-309: open, classify and scrub the file; the scrubber returns
WorkerScrub(w) ==
    /\ Running /\ wpc[w] = "open"
    /\ \E r \in {scrub_file(disk[fname[w]], fperm[fname[w]].r, fperm[fname[w]].w, p)} :
          /\ ~r.exits
          /\ disk' = [disk EXCEPT ![fname[w]] = r.out]
          /\ result' = [result EXCEPT ![w] = r.ret]
          /\ ferr' = [ferr EXCEPT ![fname[w]] = r.err]
          /\ treat' = [treat EXCEPT ![fname[w]] = r.kind]
    /\ processed' = [processed EXCEPT ![fname[w]] = @ + 1]
    /\ wpc' = [wpc EXCEPT ![w] = "tally"]
    /\ UNCHANGED <<fileVars, out, scrubVars, work_queue, done, queue_mutex,
                   fname, op_tally, inserting, raced, mpc, nlaunched, njoined, proc,
                   taken>>

\* lines 219-222: process_text cannot write the file back and calls exit(-1)
WorkerScrubExits(w) ==
    /\ Running /\ wpc[w] = "open"
    /\ \E r \in {scrub_file(disk[fname[w]], fperm[fname[w]].r, fperm[fname[w]].w, p)} :
          /\ r.exits
          /\ ferr' = [ferr EXCEPT ![fname[w]] = r.err]
          /\ treat' = [treat EXCEPT ![fname[w]] = r.kind]
    /\ processed' = [processed EXCEPT ![fname[w]] = @ + 1]
    /\ proc' = "exited"
    /\ UNCHANGED <<fileVars, out, disk, scrubVars, work_queue, done, queue_mutex, wpc,
                   fname, result, op_tally, inserting, raced, mpc, nlaunched, njoined,
                   taken>>

\* lines 298/309: the worker enters op_tally[fname]; no lock is held
TallyBegin(w) ==
    /\ Running /\ wpc[w] = "tally"
    /\ inserting' = inserting \cup {w}
    /\ raced' = IF inserting # {} THEN raced \cup inserting \cup {w} ELSE raced
    /\ wpc' = [wpc EXCEPT ![w] = "tally_end"]
    /\ UNCHANGED <<fileVars, out, disk, scrubVars, work_queue, done, queue_mutex,
                   fname, result, op_tally, mpc, nlaunched, njoined, proc,
                   taken, processed, ferr, treat>>

\* the insertion completes and no other worker was inside the map
\* meanwhile; the iteration ends and its locals go out of scope
TallyEnd(w) ==
    /\ Running /\ wpc[w] = "tally_end"
    /\ w \notin raced
    /\ op_tally' = tally_store(op_tally, fname[w], result[w])
    /\ inserting' = inserting \ {w}
    /\ fname' = [fname EXCEPT ![w] = 0]
    /\ result' = [result EXCEPT ![w] = 0]
    /\ wpc' = [wpc EXCEPT ![w] = "lock"]
    /\ UNCHANGED <<fileVars, out, disk, scrubVars, work_queue, done, queue_mutex,
                   raced, mpc, nlaunched, njoined, proc,
                   taken, processed, ferr, treat>>

\* the insertion overlapped another worker's: a data race on the std::map,
\* whose outcome is undefined: the entry is stored, the entry is lost, or
\* the process crashes on the damaged tree
TallyEndRaced(w) ==
    /\ Running /\ wpc[w] = "tally_end"
    /\ w \in raced
    /\ \E outcome \in {"stored", "lost", "crash"} :
          /\ op_tally' = IF outcome = "stored"
                         THEN tally_store(op_tally, fname[w], result[w])
                         ELSE op_tally
          /\ proc' = IF outcome = "crash" THEN "crashed" ELSE proc
    /\ inserting' = inserting \ {w}
    /\ raced' = raced \ {w}
    /\ fname' = [fname EXCEPT ![w] = 0]
    /\ result' = [result EXCEPT ![w] = 0]
    /\ wpc' = [wpc EXCEPT ![w] = "lock"]
    /\ UNCHANGED <<fileVars, out, disk, scrubVars, work_queue, done, queue_mutex,
                   mpc, nlaunched, njoined,
                   taken, processed, ferr, treat>>

MainStep ==
    \/ EarlyReturn
    \/ Enqueue
    \/ Launch
    \/ LockForDone
    \/ SetDone
    \/ NotifyAll
    \/ Join
    \/ Return
    \/ Report

\* the steps of worker w other than taking the mutex
WorkerStep(w) ==
    /\ w \in DOMAIN wpc
    /\ \/ WorkerWait(w)
       \/ WorkerTake(w)
       \/ WorkerExit(w)
       \/ WorkerScrub(w)
       \/ WorkerScrubExits(w)
       \/ TallyBegin(w)
       \/ TallyEnd(w)
       \/ TallyEndRaced(w)

WorkerLocks(w) == w \in DOMAIN wpc /\ WorkerLock(w)

Next ==
    \/ MainStep
    \/ \E w \in DOMAIN wpc : WorkerLock(w)
    \/ \E w \in DOMAIN wpc : WorkerWait(w)
    \/ \E w \in DOMAIN wpc : WorkerTake(w)
    \/ \E w \in DOMAIN wpc : WorkerExit(w)
    \/ \E w \in DOMAIN wpc : WorkerScrub(w)
    \/ \E w \in DOMAIN wpc : WorkerScrubExits(w)
    \/ \E w \in DOMAIN wpc : TallyBegin(w)
    \/ \E w \in DOMAIN wpc : TallyEnd(w)
    \/ \E w \in DOMAIN wpc : TallyEndRaced(w)
    \/ \E w \in DOMAIN wpc : SpuriousWake(w)

Spec == Init /\ [][Next]_vars

\* The steps the liveness argument may rely on: a spurious wake-up can
\* only help a blocked worker, so it is left out.
LiveNext ==
    \/ MainStep
    \/ \E w \in DOMAIN wpc : WorkerLocks(w)
    \/ \E w \in DOMAIN wpc : WorkerStep(w)

\* Threads are scheduled fairly: a step that stays possible is taken.
\* Without spurious wake-ups no step can be repeated for ever, so weak
\* fairness of the whole relation gives every thread its turn.
LiveSpec == Init /\ [][LiveNext]_vars /\ WF_vars(LiveNext)

\* ---- main after process_files has returned -------------------------------
\* the runs reported on: target a, alone or with the path form ab
ReportOptions ==
    {[binary_only |-> FALSE, text_only |-> FALSE, clear_char |-> c, replace_str |-> r,
      verbose |-> v, path_mode |-> pm,
      tgt_strs |-> IF pm THEN <<<<97, 98>>, <<97>>>> ELSE <<<<97>>>>] :
        c \in {0, 98}, r \in {<<>>, <<98>>}, v \in BOOLEAN, pm \in BOOLEAN}

\* files without the target, with it once or twice, and a binary file
ReportContents == {<<98>>, <<97>>, <<97, 97>>, <<1, 97>>}

\* the state in which process_files returns when no two insertions into
\* op_tally overlapped: every file went through the worker body once and
\* its result is in the ledger
ReportInit ==
    /\ p \in ReportOptions
    /\ target_str = <<97>>
    /\ fsq = IF p.path_mode
             THEN [throws |-> FALSE, exists |-> TRUE, ec |-> FALSE, abs |-> <<97, 98>>,
                   canon |-> <<97, 98>>, norm |-> <<97>>]
             ELSE NoFs
    /\ out = <<>>
    /\ \E n \in 0..MaxFiles :
          /\ files = 1..n
          /\ disk0 \in [1..n -> ReportContents]
          /\ fperm = [f \in 1..n |-> [r |-> TRUE, w |-> TRUE]]
          /\ disk = [f \in 1..n |-> scrub_file(disk0[f], TRUE, TRUE, p).out]
          /\ op_tally = [f \in 1..n |-> scrub_file(disk0[f], TRUE, TRUE, p).ret]
          /\ treat = [f \in 1..n |-> scrub_file(disk0[f], TRUE, TRUE, p).kind]
          /\ ferr = [f \in 1..n |-> "none"]
          /\ taken = [f \in 1..n |-> 1]
          /\ processed = [f \in 1..n |-> 1]
          /\ done = (n > 0)
          /\ nlaunched = IF n > 0 THEN 1 ELSE 0
          /\ wpc = [w \in {1} |-> IF n > 0 THEN "exited" ELSE "idle"]
    /\ num_threads = 1
    /\ njoined = nlaunched
    /\ work_queue = <<>>
    /\ queue_mutex = 0
    /\ fname = [w \in {1} |-> 0]
    /\ result = [w \in {1} |-> 0]
    /\ inserting = {}
    /\ raced = {}
    /\ mpc = "returned"
    /\ proc = "running"
    /\ scan = NoScan
    /\ passes = 0
    /\ last = NoLast

ReportNext == Report
ReportSpec == ReportInit /\ [][ReportNext]_vars

\* ---- properties of process_files ------------------------------------------
Returned == mpc \in {"returned", "report"}
Enqueued == files # {} /\ Len(p.tgt_strs) # 0
AllExited == \A w \in DOMAIN wpc : wpc[w] = "exited"

\* C1: every enqueued path is dequeued by exactly one worker and goes
\* through the worker body exactly once: never twice, and once when
\* process_files returns.
C1_ExactlyOnce ==
    \A f \in files :
        /\ taken[f] <= 1
        /\ processed[f] <= 1
        /\ (Returned /\ Enqueued) => (taken[f] = 1 /\ processed[f] = 1)

C1_Witness ==
    /\ Returned
    /\ num_threads = 2
    /\ Cardinality(files) = 2
    /\ \A f \in files : taken[f] = 1 /\ processed[f] = 1

Finished ==
    /\ Returned
    /\ work_queue = <<>>
    /\ done
    /\ AllExited
    /\ nlaunched = num_threads
    /\ njoined = nlaunched

\* C2: with a non-empty file set, fair scheduling and scrub steps that
\* return (no exit(-1)), process_files eventually has an empty queue, done
\* set, every worker exited and joined; and a worker has exited only with
\* done set and the queue empty.
C2_Drains ==
    /\ Enqueued => <>(Finished \/ proc = "exited")
    /\ [](\A w \in DOMAIN wpc : wpc[w] = "exited" => (done /\ work_queue = <<>>))

\* the run of process_files with a pool of one worker: the files are taken
\* in queue order and each result is stored before the next file is taken
RECURSIVE single_worker_run(_, _)
single_worker_run(q, tally) ==
    IF q = <<>> THEN [tally |-> tally, exits |-> FALSE]
    ELSE LET f == Head(q)
             r == scrub_file(disk0[f], fperm[f].r, fperm[f].w, p)
         IN  IF r.exits THEN [tally |-> tally, exits |-> TRUE]
             ELSE single_worker_run(Tail(q), tally_store(tally, f, r.ret))

\* C3: when process_files returns, the ledger is the one a pool of a
\* single worker produces from the same files, targets and options.
C3_SameAsSingleWorker ==
    (Returned /\ Enqueued) =>
        LET one == single_worker_run(enqueue_all(files, <<>>), <<>>)
        IN  ~one.exits /\ op_tally = one.tally

\* C4: a worker stores only under the path it dequeued, and no two workers
\* are inside the shared map at the same time.
C4_TallySerialized ==
    /\ \A w \in inserting : fname[w] \in files /\ taken[fname[w]] = 1 /\ \A v \in inserting \ {w} : fname[v] # fname[w]
    /\ Cardinality(inserting) <= 1

\* C5: main reads the ledger only when every launched worker has left the
\* worker lambda and has been joined, and none is inside the map.
C5_ReadAfterJoin ==
    mpc = "report" =>
        /\ \A w \in DOMAIN wpc : wpc[w] \in {"idle", "exited"}
        /\ \A w \in 1..nlaunched : wpc[w] = "exited"
        /\ njoined = nlaunched
        /\ inserting = {}

C5_Witness ==
    /\ mpc = "report"
    /\ nlaunched = 2
    /\ DOMAIN op_tally = {1, 2}

\* the counts a file processed without error can get: 0 for no match, -k
\* or +k for k matches
Counts == (0 - MaxLen)..MaxLen

\* C6: the ledger entry of a file whose processing failed (open for
\* reading, or write back) is an error marker, different from every count.
C6_ErrorMarkerDistinct ==
    \A f \in DOMAIN op_tally : ferr[f] # "none" => op_tally[f] \notin Counts

\* C7: a per-file failure never terminates the run.
C7_NoAbort == proc # "exited"


\* ---- properties of the scrubbers ----------------------------------------
\* the occurrences of t in buf found left to right without overlap
RECURSIVE Occurrences(_, _, _)
Occurrences(buf, t, from) ==
    LET hits == {i \in from..Len(buf) : MatchAt(buf, t, i)}
    IN  IF hits = {} THEN {}
        ELSE LET m == CHOOSE i \in hits : \A j \in hits : i <= j
             IN  {m} \cup Occurrences(buf, t, m + Len(t))

ClearedAt(buf, t, c, occ) ==
    [i \in 1..Len(buf) |->
        IF \E m \in occ : m <= i /\ i < m + Len(t) THEN c ELSE buf[i]]

Cleared(buf, t, c) == ClearedAt(buf, t, c, Occurrences(buf, t, 1))

Contains(s, t) == \E i \in 1..(Len(s) + 1) : MatchAt(s, t, i)
Range(s) == {s[i] : i \in 1..Len(s)}
TargetList == Range(p.tgt_strs)

BinaryPassDone == passes >= 1 /\ last.kind = "binary"
TextPassDone == passes >= 1 /\ last.kind = "text"

\* C8: a text scrub whose non-empty replacement contains a target is
\* rejected: nothing is spliced, nothing is written and the content stays
\* byte-for-byte the same.  (process_text has no loop-guard error at all;
\* the formula states the part of the claim about the file.)
C8_LoopGuardRejects ==
    (TextPassDone /\ p.replace_str # <<>>
        /\ \E t \in TargetList : Contains(p.replace_str, t))
    => (disk[1] = last.before /\ ~last.wrote)

\* C9: a binary scrub keeps the length of the buffer; with a single target
\* T occurring k times (left to right, no overlap) the output is the input
\* with exactly those k runs of len(T) bytes set to the clear byte, and the
\* count returned is -k.
C9_BinaryScrubResult ==
    BinaryPassDone =>
        /\ Len(disk[1]) = Len(last.before)
        /\ Len(p.tgt_strs) = 1 =>
              /\ disk[1] = Cleared(last.before, p.tgt_strs[1], p.clear_char)
              /\ last.ret = 0 - Cardinality(Occurrences(last.before, p.tgt_strs[1], 1))

C9_Witness ==
    /\ BinaryPassDone
    /\ passes = 1
    /\ Len(p.tgt_strs) = 1
    /\ last.ret = 0 - 2
    /\ disk[1] # last.before

ClearMode ==
    \/ last.kind = "binary"
    \/ (last.kind = "text" /\ p.replace_str = <<>>)

\* C10 as stated: a second clear pass over the output of the first finds no
\* match, returns 0 and changes nothing, whatever the targets and clear byte.
C10_SecondPassNoChange ==
    (passes = 2 /\ ClearMode) => (last.ret = 0 /\ disk[1] = last.before)

\* C10 amended: a second clear pass finds no match, returns 0 and changes
\* nothing when the file is binary and the clear byte occurs in no target,
\* or when the file is text, the replacement is empty and every target is a
\* single character.
C10_SecondPassNoChangeAmended ==
    (passes = 2 /\
        \/ (last.kind = "binary" /\ \A t \in TargetList : p.clear_char \notin Range(t))
        \/ (last.kind = "text" /\ p.replace_str = <<>> /\ \A t \in TargetList : Len(t) = 1))
    => (last.ret = 0 /\ disk[1] = last.before)

C10_Witness ==
    /\ passes = 2
    /\ last.kind = "binary"
    /\ \A t \in TargetList : p.clear_char \notin Range(t)
    /\ Len(p.tgt_strs) = 2
    /\ disk0[1] # disk[1]
    /\ last.ret = 0

\* s from index i on, with every occurrence of t met left to right (the
\* next one looked for after the end of the one before) replaced by r
RECURSIVE RefReplaced(_, _, _, _)
RefReplaced(s, t, r, i) ==
    IF i > Len(s) THEN <<>>
    ELSE IF MatchAt(s, t, i) THEN r \o RefReplaced(s, t, r, i + Len(t))
    ELSE <<s[i]>> \o RefReplaced(s, t, r, i + 1)

\* the number of those occurrences
RECURSIVE RefMatches(_, _, _)
RefMatches(s, t, i) ==
    IF i > Len(s) THEN 0
    ELSE IF MatchAt(s, t, i) THEN 1 + RefMatches(s, t, i + Len(t))
    ELSE RefMatches(s, t, i + 1)

\* the reference text scrub: the targets in order, each over the content
\* the one before left; m counts the matches of all targets
RECURSIVE RefText(_, _, _, _, _)
RefText(s, tgts, r, i, m) ==
    IF i > Len(tgts) THEN [buf |-> s, m |-> m]
    ELSE RefText(RefReplaced(s, tgts[i], r, 1), tgts, r, i + 1,
                 m + RefMatches(s, tgts[i], 1))

\* C11: a text scrub leaves the content the reference procedure produces
\* (targets in order, each scanned left to right over the current content,
\* the replacement spliced in at each match and never re-scanned) and
\* returns +m with a non-empty replacement, -m with an empty one, m being
\* the number of matches over all targets.
C11_TextScrubResult ==
    TextPassDone =>
        \E ref \in {RefText(last.before, p.tgt_strs, p.replace_str, 1, 0)} :
            /\ disk[1] = ref.buf
            /\ last.ret = IF p.replace_str # <<>> THEN ref.m ELSE 0 - ref.m

C11_Witness ==
    /\ TextPassDone
    /\ passes = 1
    /\ Len(p.tgt_strs) = 2
    /\ p.replace_str # <<>>
    /\ \E t \in TargetList : Contains(p.replace_str, t)
    /\ last.ret = 2
    /\ disk[1] # last.before

\* ---- properties of the worker body on one file ----------------------------
PassDone == passes >= 1
Matched(s) == \E t \in TargetList : Contains(s, t)

\* C12: the file is opened for writing only when a scrubber ran and found
\* a match of some target: with no match in a binary or text file, with an
\* empty text file and with a file the binary-only/text-only filter skips,
\* nothing is written and the content on disk stays as it was.
C12_WriteOnlyOnMatch ==
    PassDone =>
        /\ last.wrote => (last.kind \in {"binary", "text"} /\ Matched(last.before))
        /\ (~Matched(last.before) \/ last.before = <<>> \/ last.kind = "skip")
              => (~last.wrote /\ disk[1] = last.before)

C12_Witness ==
    /\ PassDone
    /\ last.kind = "skip"
    /\ Matched(last.before)
    /\ fperm[1].w
    /\ ~last.wrote
    /\ disk[1] = last.before

\* C14: a file that could be opened is classified once and gets one
\* treatment: the binary scrub when it is binary and text-only is off, the
\* text scrub when it is text and binary-only is off, and otherwise it is
\* skipped with result 0 and its content unchanged; never both scrubbers.
\* A binary scrub keeps the length and changes bytes only to the clear
\* byte, whatever the replacement string.
C14_OneTreatment ==
    (PassDone /\ fperm[1].r) =>
        /\ last.kind \in {"binary", "text", "skip"}
        /\ last.kind = "binary" <=> (is_binary(last.before) /\ ~p.text_only)
        /\ last.kind = "text" <=> (~is_binary(last.before) /\ ~p.binary_only)
        /\ last.kind = "skip" => (last.ret = 0 /\ disk[1] = last.before /\ ~last.wrote)
        /\ last.kind = "binary" =>
              /\ Len(disk[1]) = Len(last.before)
              /\ \A i \in 1..Len(disk[1]) :
                     disk[1][i] # last.before[i] => disk[1][i] = p.clear_char

C14_Witness ==
    /\ PassDone
    /\ last.kind = "binary"
    /\ p.replace_str # <<>>
    /\ p.replace_str[1] # p.clear_char
    /\ disk[1] # last.before
    /\ last.ret < 0

\* ---- properties of the target list -----------------------------------------
TargetsBuilt == mpc = "start" /\ proc = "running"

\* a is lexicographically greater than b (strings of the same length)
LexGreater(a, b) ==
    \E k \in 1..Len(a) : a[k] > b[k] /\ \A j \in 1..(k - 1) : a[j] = b[j]

ProperSubstring(a, b) == Len(a) < Len(b) /\ Contains(b, a)

\* C13: the target list handed to the scrubbers (the raw target, or its
\* path forms in path mode) is not empty, holds no empty string and no
\* string twice, and is ordered longest first with strings of equal length
\* in descending lexicographic order; a target that is a proper substring
\* of another comes after it.
C13_TargetsOrdered ==
    TargetsBuilt =>
        /\ Len(p.tgt_strs) >= 1
        /\ \A i \in 1..Len(p.tgt_strs) : p.tgt_strs[i] # <<>>
        /\ \A i, j \in 1..Len(p.tgt_strs) :
              /\ i < j => p.tgt_strs[i] # p.tgt_strs[j]
              /\ i < j => Len(p.tgt_strs[i]) >= Len(p.tgt_strs[j])
              /\ (i < j /\ Len(p.tgt_strs[i]) = Len(p.tgt_strs[j]))
                    => LexGreater(p.tgt_strs[i], p.tgt_strs[j])
              /\ ProperSubstring(p.tgt_strs[j], p.tgt_strs[i]) => i < j

C13_Witness ==
    /\ TargetsBuilt
    /\ p.path_mode
    /\ Len(p.tgt_strs) = 4
    /\ Len(p.tgt_strs[1]) = Len(p.tgt_strs[2])
    /\ ProperSubstring(p.tgt_strs[4], p.tgt_strs[1])

Reported == mpc = "report"
PathLines(f) == {i \in 1..Len(out) : out[i].kind \in {"cleared", "replaced"} /\ out[i].path = f}

\* C15: in the verbose report an entry of the ledger gets a processed-path
\* line only when its count is not zero: "cleared n" with n = |count| for a
\* negative count, "replaced n" for a positive one; an entry with count
\* zero gets no line, whatever the other entries are.
C15_NoLineForZero ==
    (Reported /\ p.verbose) =>
        \A f \in DOMAIN op_tally :
            /\ op_tally[f] = 0 => PathLines(f) = {}
            /\ \A i \in PathLines(f) :
                  /\ op_tally[f] < 0 => (out[i].kind = "cleared" /\ out[i].n = 0 - op_tally[f])
                  /\ op_tally[f] > 0 => (out[i].kind = "replaced" /\ out[i].n = op_tally[f])

\* ---- properties of the scrub loops --------------------------------------------
\* what is left to scan for the current target
ScanRem(sc) == Len(sc.contents) + 1 - sc.pos

\* a step of a scrub loop: the cursor stays inside the buffer, and the
\* step ends the for loop, goes to the next target, or is a match after
\* which less is left to scan
ScanProgress ==
    /\ scan.pc = "loop"
    /\ scan'.t_it <= Len(p.tgt_strs) + 1
    /\ ScanRem(scan') >= 0
    /\ \/ scan'.pc = "done"
       \/ scan'.t_it = scan.t_it + 1
       \/ /\ scan'.t_it = scan.t_it
          /\ ScanRem(scan') < ScanRem(scan)
          /\ scan.fn = "process_binary" =>
                /\ scan'.pos >= scan.pos + Len(p.tgt_strs[scan.t_it])
                /\ Len(scan'.contents) = Len(scan.contents)
          /\ (scan.fn = "process_text" /\ p.replace_str # <<>>) => scan'.pos > scan.pos
          /\ (scan.fn = "process_text" /\ p.replace_str = <<>>) =>
                Len(scan'.contents) < Len(scan.contents)

\* C17: with non-empty targets both scrub loops end: every step makes
\* progress (a binary match moves the cursor on by len(T); a text match
\* moves the cursor past the replacement or, with an empty replacement,
\* shortens the content), and the for loop is eventually left, also when
\* the replacement contains the target.
C17_LoopsTerminate ==
    /\ [][scan' # scan => ScanProgress]_vars
    /\ <>(scan.pc = "done")

C17_Witness ==
    /\ scan.pc = "done"
    /\ scan.fn = "process_text"
    /\ \E t \in TargetList : Contains(p.replace_str, t)
    /\ scan.change_cnt >= 2
    /\ Len(scan.contents) > Len(disk0[1])

====
